---------------------------- MODULE Spec2Model ----------------------------
(***************************************************************************)
(* rmcp: discovery of tool files from a global and a local directory       *)
(* (ToolDiscovery.discoverToolsWithMetadata) and the merge of the two      *)
(* results (MultiSourceToolDiscovery.mergeResults).                        *)
(*                                                                         *)
(* A tool name is the sequence of its UTF-16 code units; the names of the  *)
(* model are ASCII letters.  A directory is its readdir listing; a file is *)
(* identified by its position in the listing.                              *)
(***************************************************************************)
EXTENDS Integers, Sequences, FiniteSets, TLC

\* Largest number of files in the listing of the global / the local directory
\* of a discoverTools call, and in the listing of a directory scanned alone.
MaxGlobalFiles == 2
MaxLocalFiles == 2
MaxScanFiles == 3

\* Largest number of files in each directory of a discoverTools call whose
\* global path is resolved from every configuration.
MaxDiscoverFiles == 1

---------------------------------------------------------------------------
\* Tool names, as code units.
alpha == <<97, 108, 112, 104, 97>>
beta == <<98, 101, 116, 97>>
Beta == <<66, 101, 116, 97>>
gamma == <<103, 97, 109, 109, 97>>
Zeta == <<90, 101, 116, 97>>

Names == {alpha, beta, Beta, gamma, Zeta}

---------------------------------------------------------------------------
\* String primitives of the JavaScript engine.

\* String.prototype.toLowerCase on ASCII: 'A'..'Z' move to 'a'..'z'.
toLowerCase(s) ==
  [i \in DOMAIN s |-> IF s[i] >= 65 /\ s[i] <= 90 THEN s[i] + 32 ELSE s[i]]

\* Comparison of two strings by code units (-1, 0, 1): the order of
\* Array.prototype.sort without a comparator.
codeUnitCompare(a, b) ==
  LET n == IF Len(a) < Len(b) THEN Len(a) ELSE Len(b)
      diff == {i \in 1..n : a[i] # b[i]}
  IN  IF diff = {}
        THEN IF Len(a) < Len(b) THEN -1 ELSE IF Len(a) > Len(b) THEN 1 ELSE 0
        ELSE LET i == CHOOSE j \in diff : \A k \in diff : j <= k
             IN  IF a[i] < b[i] THEN -1 ELSE 1

\* String.prototype.localeCompare on ASCII letters (the collation of the
\* default locale): the letters decide, ignoring case; between two strings
\* of the same letters the first difference of case decides, lower case
\* first.
localeCompare(a, b) ==
  LET p == codeUnitCompare(toLowerCase(a), toLowerCase(b))
      diff == {i \in DOMAIN a : a[i] # b[i]}
  IN  IF p # 0 THEN p
      ELSE IF diff = {} THEN 0
      ELSE LET i == CHOOSE j \in diff : \A k \in diff : j <= k
           IN  IF a[i] > b[i] THEN -1 ELSE 1

\* Array.prototype.sort is stable: an element goes after the k elements of
\* the sorted part that do not compare greater than it.
insertAfter(sorted, x, k) ==
  SubSeq(sorted, 1, k) \o <<x>> \o SubSeq(sorted, k + 1, Len(sorted))

\* Array.prototype.sort without a comparator, on strings.
sortStrings(s) ==
  LET f[n \in 0..Len(s)] ==
        IF n = 0 THEN <<>>
        ELSE LET sorted == f[n - 1]
                 k == Cardinality({i \in DOMAIN sorted :
                                     codeUnitCompare(sorted[i], s[n]) <= 0})
             IN  insertAfter(sorted, s[n], k)
  IN  f[Len(s)]

\* Map: the entries in insertion order; set on a present key keeps its place.
MapHas(m, k) == \E i \in DOMAIN m : m[i].key = k

MapGet(m, k) == m[CHOOSE i \in DOMAIN m : m[i].key = k].value

\* A mutant of MapSet: a present key keeps its value.
MapSetKeepFirst(m, k, v) ==
  IF MapHas(m, k) THEN m ELSE Append(m, [key |-> k, value |-> v])

\* A mutant of MapSet: every set adds an entry.
MapSetAppend(m, k, v) == Append(m, [key |-> k, value |-> v])

MapSet(m, k, v) ==
  IF MapHas(m, k)
    THEN [i \in DOMAIN m |-> IF m[i].key = k THEN [key |-> k, value |-> v] ELSE m[i]]
    ELSE Append(m, [key |-> k, value |-> v])

MapValues(m) == [i \in DOMAIN m |-> m[i].value]

---------------------------------------------------------------------------
\* Paths, as code units, on a POSIX system.

\* "/"
sep == <<47>>

\* "~"
tilde == <<126>>

\* "~/"
tildeSlash == <<126, 47>>

\* "."
dot == <<46>>

\* ".."
dotDot == <<46, 46>>

\* ".rmcp-tools"
DEFAULT_GLOBAL_TOOLS_DIR == <<46, 114, 109, 99, 112, 45, 116, 111, 111, 108, 115>>

\* "/work"
cwd == <<47, 119, 111, 114, 107>>

\* "/home/u"
HomeUser == <<47, 104, 111, 109, 101, 47, 117>>

\* "/var/lib/svc"
HomeService == <<47, 118, 97, 114, 47, 108, 105, 98, 47, 115, 118, 99>>

\* "/"
HomeRoot == <<47>>

\* "/opt/tools"
PathOptTools == <<47, 111, 112, 116, 47, 116, 111, 111, 108, 115>>

\* "/tmp"
PathTmp == <<47, 116, 109, 112>>

\* "/tmp/tools"
PathTmpTools == <<47, 116, 109, 112, 47, 116, 111, 111, 108, 115>>

\* "/TMP/tools"
PathTmpUpper == <<47, 84, 77, 80, 47, 116, 111, 111, 108, 115>>

\* "/tmpfoo"
PathTmpfoo == <<47, 116, 109, 112, 102, 111, 111>>

\* "/etc/"
PathEtcSlash == <<47, 101, 116, 99, 47>>

\* "/"
PathRoot == <<47>>

\* "/usr/local/bin/x"
PathUsrLocalBinX == <<47, 117, 115, 114, 47, 108, 111, 99, 97, 108, 47, 98, 105, 110, 47, 120>>

\* "/opt/../etc/rmcp"
PathDotDotEtc == <<47, 111, 112, 116, 47, 46, 46, 47, 101, 116, 99, 47, 114, 109, 99, 112>>

\* "~/tools"
PathTildeTools == <<126, 47, 116, 111, 111, 108, 115>>

\* "~"
PathTilde == <<126>>

\* "tools"
PathRelative == <<116, 111, 111, 108, 115>>

\* "/opt/env"
PathOptEnv == <<47, 111, 112, 116, 47, 101, 110, 118>>

\* "~/env"
PathTildeEnv == <<126, 47, 101, 110, 118>>

\* "/var/env"
PathVarEnv == <<47, 118, 97, 114, 47, 101, 110, 118>>

\* The home directories os.homedir() may give: of a user, of a service
\* account, of a container's root.
Homes == {HomeUser, HomeService, HomeRoot}

\* An optional string: undefined, or a value.
Undefined == [defined |-> FALSE, value |-> <<>>]
Defined(v) == [defined |-> TRUE, value |-> v]

\* The truthiness of an optional string: defined and not empty.
truthy(opt) == opt.defined /\ opt.value # <<>>

\* String.prototype.startsWith
startsWith(s, prefix) ==
  Len(prefix) <= Len(s) /\ SubSeq(s, 1, Len(prefix)) = prefix

\* String.prototype.slice(1)
slice1(s) == SubSeq(s, 2, Len(s))

RECURSIVE splitFrom(_, _, _, _)
\* The segments of s from position i on, after the finished segments and the
\* code units of the segment being read.
splitFrom(s, i, finished, segment) ==
  IF i > Len(s)
    THEN IF segment = <<>> THEN finished ELSE Append(finished, segment)
  ELSE IF s[i] = sep[1]
    THEN splitFrom(s, i + 1,
                   IF segment = <<>> THEN finished ELSE Append(finished, segment), <<>>)
  ELSE splitFrom(s, i + 1, finished, Append(segment, s[i]))

\* The segments of a path between separators, empty ones dropped.
splitPath(s) == splitFrom(s, 1, <<>>, <<>>)

RECURSIVE normalizeFrom(_, _, _)
\* The segments from position i on resolved after the ones kept so far.
normalizeFrom(segments, i, kept) ==
  IF i > Len(segments) THEN kept
  ELSE IF segments[i] = dot THEN normalizeFrom(segments, i + 1, kept)
  ELSE IF segments[i] = dotDot
    THEN normalizeFrom(segments, i + 1,
                       IF kept = <<>> THEN <<>> ELSE SubSeq(kept, 1, Len(kept) - 1))
  ELSE normalizeFrom(segments, i + 1, Append(kept, segments[i]))

\* The segments of an absolute path with "." and ".." resolved.
normalizeSegments(segments) == normalizeFrom(segments, 1, <<>>)

RECURSIVE joinFrom(_, _, _)
\* The path so far followed by the segments from position i on.
joinFrom(segments, i, path) ==
  IF i > Len(segments) THEN path
  ELSE joinFrom(segments, i + 1, path \o sep \o segments[i])

\* The absolute path of the segments.
joinSegments(segments) ==
  IF segments = <<>> THEN sep ELSE joinFrom(segments, 1, <<>>)

\* path.isAbsolute
isAbsolute(path) == Len(path) > 0 /\ path[1] = sep[1]

\* path.resolve(path): the path made absolute against the working directory
\* and normalised, without a trailing separator.
resolve(path) ==
  IF isAbsolute(path)
    THEN joinSegments(normalizeSegments(splitPath(path)))
    ELSE joinSegments(normalizeSegments(splitPath(cwd) \o splitPath(path)))

\* path.join(base, rest) for an absolute base: the two joined by a separator
\* and normalised; a trailing separator of rest is kept.
join(base, rest) ==
  LET segments == normalizeSegments(splitPath(base) \o splitPath(rest))
      joined == joinSegments(segments)
  IN  IF segments # <<>> /\ Len(rest) > 0 /\ rest[Len(rest)] = sep[1]
        THEN joined \o sep
        ELSE joined

---------------------------------------------------------------------------
\* path-resolver.ts

FORBIDDEN_PATHS ==
  <<
    <<47>>,
    <<47, 98, 105, 110>>,
    <<47, 117, 115, 114>>,
    <<47, 117, 115, 114, 47, 98, 105, 110>>,
    <<47, 117, 115, 114, 47, 108, 111, 99, 97, 108>>,
    <<47, 117, 115, 114, 47, 108, 111, 99, 97, 108, 47, 98, 105, 110>>,
    <<47, 101, 116, 99>>,
    <<47, 118, 97, 114>>,
    <<47, 116, 109, 112>>,
    <<47, 83, 121, 115, 116, 101, 109>>,
    <<47, 76, 105, 98, 114, 97, 114, 121>>,
    <<67, 58, 92>>,
    <<67, 58, 92, 87, 105, 110, 100, 111, 119, 115>>,
    <<67, 58, 92, 80, 114, 111, 103, 114, 97, 109, 32, 70, 105, 108, 101, 115>>,
    <<67, 58, 92, 80, 114, 111, 103, 114, 97, 109, 32, 70, 105, 108, 101, 115, 32, 40, 120, 56, 54, 41>>
  >>

expandHomePath(inputPath, home) ==
  IF startsWith(inputPath, tildeSlash) \/ inputPath = tilde
    THEN join(home, slice1(inputPath))
    ELSE inputPath

getDefaultGlobalToolsPath(home) == join(home, DEFAULT_GLOBAL_TOOLS_DIR)

\* path.resolve(forbidden).toLowerCase() of every forbidden path.
normalizedForbidden ==
  [i \in DOMAIN FORBIDDEN_PATHS |-> toLowerCase(resolve(FORBIDDEN_PATHS[i]))]

\* The path is, after lower-casing, a forbidden path or starts with one
\* followed by the separator.
isForbidden(normalizedPath) ==
  \E i \in DOMAIN FORBIDDEN_PATHS :
    \/ normalizedPath = normalizedForbidden[i]
    \/ startsWith(normalizedPath, normalizedForbidden[i] \o sep)

\* A mutant of validateGlobalPath: only the forbidden paths themselves are
\* refused.
validateGlobalPathExact(globalPath, home) ==
  LET normalizedPath == toLowerCase(resolve(globalPath))
  IN  [throws |-> \E i \in DOMAIN FORBIDDEN_PATHS :
                    normalizedPath = normalizedForbidden[i],
       warns |-> FALSE]

\* A mutant of validateGlobalPath: the forbidden path is matched as a prefix
\* of the text, with no separator after it.
validateGlobalPathTextPrefix(globalPath, home) ==
  LET normalizedPath == toLowerCase(resolve(globalPath))
      homeDir == toLowerCase(resolve(home))
      isInHomeDir ==
        startsWith(normalizedPath, homeDir \o sep) \/ normalizedPath = homeDir
  IN  IF \E i \in DOMAIN FORBIDDEN_PATHS :
            startsWith(normalizedPath, normalizedForbidden[i])
        THEN [throws |-> TRUE, warns |-> FALSE]
        ELSE [throws |-> FALSE, warns |-> ~isInHomeDir]

\* validateGlobalPath: whether it throws, and whether it warns that the path
\* is outside the home directory.
validateGlobalPath(globalPath, home) ==
  LET normalizedPath == toLowerCase(resolve(globalPath))
      homeDir == toLowerCase(resolve(home))
      isInHomeDir ==
        startsWith(normalizedPath, homeDir \o sep) \/ normalizedPath = homeDir
  IN  IF ~isAbsolute(globalPath) THEN [throws |-> TRUE, warns |-> FALSE]
      ELSE IF isForbidden(normalizedPath) THEN [throws |-> TRUE, warns |-> FALSE]
      ELSE [throws |-> FALSE, warns |-> ~isInHomeDir]

\* The result of a call that threw: no ResolvedGlobalPath.
ResolutionError == [threw |-> TRUE, path |-> <<>>, source |-> "none", exists |-> FALSE]

\* The path and the source chosen by resolveGlobalToolsPath, before
\* validation: with the environment variable consulted first.
choosePathEnvFirst(cliPath, env, home) ==
  IF truthy(env) THEN [path |-> expandHomePath(env.value, home), source |-> "env-var"]
  ELSE IF truthy(cliPath)
    THEN [path |-> expandHomePath(cliPath.value, home), source |-> "cli-flag"]
  ELSE [path |-> getDefaultGlobalToolsPath(home), source |-> "default"]

\* The path and the source chosen by resolveGlobalToolsPath, before
\* validation.
choosePath(cliPath, env, home) ==
  IF truthy(cliPath)
    THEN [path |-> expandHomePath(cliPath.value, home), source |-> "cli-flag"]
  ELSE IF truthy(env)
    THEN [path |-> expandHomePath(env.value, home), source |-> "env-var"]
  ELSE [path |-> getDefaultGlobalToolsPath(home), source |-> "default"]

\* Whether resolveGlobalToolsPath(options) warns that the path is outside the
\* home directory.
resolveGlobalToolsPathWarns(options, env, home) ==
  LET resolvedPath == resolve(choosePath(options.cliPath, env, home).path)
  IN  options.validate /\ validateGlobalPath(resolvedPath, home).warns

\* resolveGlobalToolsPath(options) with the environment value env, the home
\* directory home, and exists telling whether the resolved path exists.
resolveGlobalToolsPath(options, env, home, exists) ==
  LET chosen == choosePath(options.cliPath, env, home)
      resolvedPath == resolve(chosen.path)
  IN  IF options.validate /\ validateGlobalPath(resolvedPath, home).throws
        THEN ResolutionError
        ELSE [threw |-> FALSE, path |-> resolvedPath, source |-> chosen.source,
              exists |-> exists]

---------------------------------------------------------------------------
\* Files and what loading them yields.

\* The default export of a module, as isValidTool sees it.
\* isNull tells tool == null, nameIsString typeof name === 'string',
\* runIsFunction typeof run === 'function', schemaIsObject
\* typeof inputSchema === 'object' (which null satisfies) and schemaIsNull
\* inputSchema === null.
NoExport ==
  [typeOf |-> "undefined", isNull |-> TRUE, name |-> <<>>, nameIsString |-> FALSE,
   runIsFunction |-> FALSE, schemaIsObject |-> FALSE, schemaIsNull |-> FALSE]

ToolExport(n) ==
  [typeOf |-> "object", isNull |-> FALSE, name |-> n, nameIsString |-> TRUE,
   runIsFunction |-> TRUE, schemaIsObject |-> TRUE, schemaIsNull |-> FALSE]

\* An object with a name and a schema whose run member is not a function.
BadExport == [ToolExport(alpha) EXCEPT !.runIsFunction = FALSE]

\* import(fullPath) throws / the module has no default export / the default
\* export is not a tool / the default export is a tool named n.
ThrowingModule == [loads |-> FALSE, default |-> NoExport]
NoDefaultModule == [loads |-> TRUE, default |-> NoExport]
InvalidModule == [loads |-> TRUE, default |-> BadExport]
ToolModule(n) == [loads |-> TRUE, default |-> ToolExport(n)]

Modules ==
  {ThrowingModule, NoDefaultModule, InvalidModule} \cup {ToolModule(n) : n \in Names}

\* The files a directory may hold: a file that is no tool file, and a tool
\* file for each module.
Files ==
  {[ext |-> "md", module |-> NoDefaultModule]}
    \cup {[ext |-> "ts", module |-> m] : m \in Modules}

\* The tool files whose module throws on load or exports a tool.
ToolFiles ==
  {[ext |-> "ts", module |-> m] : m \in {ThrowingModule} \cup {ToolModule(n) : n \in Names}}

Listings(files, max) == UNION {[1..n -> files] : n \in 0..max}

MissingDirectory == [exists |-> FALSE, files |-> <<>>]

Directories(files, max) ==
  {MissingDirectory} \cup {[exists |-> TRUE, files |-> l] : l \in Listings(files, max)}

EmptyResults ==
  [tools |-> <<>>,
   summary |-> [total |-> 0, global |-> 0, local |-> 0, conflicts |-> <<>>]]

---------------------------------------------------------------------------
\* ToolDiscovery

isToolFile(file) == file.ext \in {"js", "ts", "mjs"}

\* A mutant of isValidTool: the run member is not checked.
isValidToolNoRunCheck(tool) ==
  /\ tool.typeOf = "object" /\ ~tool.isNull
  /\ tool.nameIsString /\ tool.schemaIsObject /\ ~tool.schemaIsNull

\* A mutant of isValidTool: a null inputSchema is not refused.
isValidToolNullSchema(tool) ==
  /\ tool.typeOf = "object" /\ ~tool.isNull
  /\ tool.nameIsString /\ tool.runIsFunction /\ tool.schemaIsObject

isValidTool(tool) ==
  /\ tool.typeOf = "object" /\ ~tool.isNull
  /\ tool.nameIsString /\ tool.runIsFunction
  /\ tool.schemaIsObject /\ ~tool.schemaIsNull

\* The result of loadToolWithMetadata: <<>> for null, <<entry>> for an entry.
\* A throwing import is caught inside and gives null.
loadToolWithMetadata(source, file, filename) ==
  IF ~file.module.loads THEN <<>>
  ELSE IF file.module.default.isNull THEN <<>>
  ELSE IF ~isValidTool(file.module.default) THEN <<>>
  ELSE <<[tool |-> file.module.default, source |-> source,
          sourcePath |-> source, filename |-> filename]>>

\* The body of the loop of discoverToolsWithMetadata for one file.
scanFile(discovered, source, file, filename) ==
  IF isToolFile(file)
    THEN discovered \o loadToolWithMetadata(source, file, filename)
    ELSE discovered

\* The result returned by discoverToolsWithMetadata after the loop.
scanResults(source, discovered) ==
  [tools |-> discovered,
   summary |-> [total |-> Len(discovered),
                global |-> IF source = "global" THEN Len(discovered) ELSE 0,
                local |-> IF source = "local" THEN Len(discovered) ELSE 0,
                conflicts |-> <<>>]]

---------------------------------------------------------------------------
\* MultiSourceToolDiscovery.mergeResults

\* A mutant of overridesGlobal: any held entry counts as a conflict.
overridesAny(existingTool) == TRUE

\* A mutant of overridesGlobal: the test is made on the wrong source.
overridesLocal(existingTool) == existingTool.source = "local"

\* The held entry is a global one: the local entry is recorded as a conflict.
overridesGlobal(existingTool) == existingTool.source = "global"

\* A mutant of addGlobalTool: the entry is kept with its name lower-cased.
addGlobalToolNormalised(toolMap, globalTool) ==
  MapSet(toolMap, toLowerCase(globalTool.tool.name),
         [globalTool EXCEPT !.tool.name = toLowerCase(@)])

\* The first loop: the global tools seed the map.
addGlobalTool(toolMap, globalTool) ==
  MapSet(toolMap, toLowerCase(globalTool.tool.name), globalTool)

\* A mutant of addLocalTool: the key is the name as it is written.
addLocalToolByExactName(st, localTool) ==
  [toolMap |-> MapSet(st.toolMap, localTool.tool.name, localTool),
   conflicts |->
     IF /\ MapHas(st.toolMap, localTool.tool.name)
        /\ overridesGlobal(MapGet(st.toolMap, localTool.tool.name))
       THEN Append(st.conflicts, localTool.tool.name)
       ELSE st.conflicts]

\* The body of the second loop, on the map and the conflict list.
addLocalTool(st, localTool) ==
  LET normalizedName == toLowerCase(localTool.tool.name)
  IN  [toolMap |-> MapSet(st.toolMap, normalizedName, localTool),
       conflicts |->
         IF /\ MapHas(st.toolMap, normalizedName)
            /\ overridesGlobal(MapGet(st.toolMap, normalizedName))
           THEN Append(st.conflicts, localTool.tool.name)
           ELSE st.conflicts]

\* A mutant of compareTools: the source is not compared.
compareToolsByNameOnly(a, b) == localeCompare(a.tool.name, b.tool.name)

\* A mutant of compareTools: the operands of the name comparison are swapped.
compareToolsReversed(a, b) ==
  IF a.source # b.source
    THEN IF a.source = "global" THEN -1 ELSE 1
    ELSE localeCompare(b.tool.name, a.tool.name)

\* A mutant of compareTools: the names are compared by code units.
compareToolsByCodeUnit(a, b) ==
  IF a.source # b.source
    THEN IF a.source = "global" THEN -1 ELSE 1
    ELSE codeUnitCompare(a.tool.name, b.tool.name)

\* The comparator of mergedTools.sort.
compareTools(a, b) ==
  IF a.source # b.source
    THEN IF a.source = "global" THEN -1 ELSE 1
    ELSE localeCompare(a.tool.name, b.tool.name)

\* mergedTools.sort with the comparator compareTools.
sortTools(s) ==
  LET f[n \in 0..Len(s)] ==
        IF n = 0 THEN <<>>
        ELSE LET sorted == f[n - 1]
                 k == Cardinality({i \in DOMAIN sorted :
                                     compareTools(sorted[i], s[n]) <= 0})
             IN  insertAfter(sorted, s[n], k)
  IN  f[Len(s)]

\* A mutant of countSource: the filter keeps every entry.
countSourceAll(tools, source) == Len(tools)

\* mergedTools.filter(t => t.source === source).length
countSource(tools, source) ==
  Cardinality({i \in DOMAIN tools : tools[i].source = source})

\* A mutant of mergedSummary: the conflicts are left in the order of the pushes.
mergedSummaryUnsorted(mergedTools, conflicts) ==
  [total |-> Len(mergedTools),
   global |-> countSource(mergedTools, "global"),
   local |-> countSource(mergedTools, "local"),
   conflicts |-> conflicts]

\* A mutant of mergedSummary: an overridden global tool is still counted.
mergedSummaryAdditive(mergedTools, conflicts) ==
  [total |-> Len(mergedTools) + Len(conflicts),
   global |-> countSource(mergedTools, "global") + Len(conflicts),
   local |-> countSource(mergedTools, "local"),
   conflicts |-> sortStrings(conflicts)]

mergedSummary(mergedTools, conflicts) ==
  [total |-> Len(mergedTools),
   global |-> countSource(mergedTools, "global"),
   local |-> countSource(mergedTools, "local"),
   conflicts |-> sortStrings(conflicts)]

mergeResults(G, L) ==
  LET g[n \in 0..Len(G.tools)] ==
        IF n = 0 THEN <<>> ELSE addGlobalTool(g[n - 1], G.tools[n])
      l[n \in 0..Len(L.tools)] ==
        IF n = 0 THEN [toolMap |-> g[Len(G.tools)], conflicts |-> <<>>]
        ELSE addLocalTool(l[n - 1], L.tools[n])
      final == l[Len(L.tools)]
      mergedTools == sortTools(MapValues(final.toolMap))
  IN  [tools |-> mergedTools,
       summary |-> mergedSummary(mergedTools, final.conflicts)]

---------------------------------------------------------------------------
\* One call of MultiSourceToolDiscovery.discoverTools.

VARIABLES
  globalDir,        \* the tools directory of the global source
  localDir,         \* the local tools directory
  pc,               \* where discoverTools is
  idx,              \* the scan loop: the next file of the listing
  discoveredTools,  \* the scan loop: the entries pushed so far
  globalResults,    \* the result of discoverGlobalTools
  localResults,     \* the result of discoverLocalTools
  merged,           \* the result of mergeResults
  config,           \* this.config of MultiSourceToolDiscovery
  options,          \* the options of a call of resolveGlobalToolsPath
  processEnv,       \* process.env.RMCP_GLOBAL_TOOLS_PATH
  processHome,      \* os.homedir()
  globalRoot,       \* the directory at the resolved global path
  globalPathResolved, \* the ResolvedGlobalPath last returned (null before)
  serverTools,      \* the tools handed to the MCP server
  toolsPath,        \* what is at this.toolsPath of a ToolDiscovery
  toolSource,       \* this.source of a ToolDiscovery
  scanned,          \* the result returned by discoverToolsWithMetadata
  cliGlobalPath,    \* globalPath of the CLI action
  process,          \* the CLI process: running or exited
  server,           \* the MCPServer of the CLI action
  warned            \* the last validateGlobalPath warned that the path is
                    \* outside the home directory

\* What no step of discoverTools changes.
envVars == <<config, options, processEnv, processHome, globalRoot>>

\* The ToolDiscovery whose discoverToolsWithMetadata is called on its own.
scannerVars == <<toolsPath, toolSource, scanned>>

\* The CLI action.
cliVars == <<cliGlobalPath, process, server>>

vars ==
  <<globalDir, localDir, pc, idx, discoveredTools, globalResults, localResults, merged,
    envVars, globalPathResolved, serverTools, scannerVars, cliVars, warned>>

\* Nothing at the path / a file / a directory with its listing, which
\* readdirSync can read or not; removed tells that it has been deleted since.
MissingTarget ==
  [kind |-> "missing", listable |-> FALSE, files |-> <<>>, removed |-> FALSE]
FileTarget ==
  [kind |-> "file", listable |-> FALSE, files |-> <<>>, removed |-> FALSE]
DirectoryTarget(listable, files) ==
  [kind |-> "directory", listable |-> listable, files |-> files, removed |-> FALSE]

\* No ToolDiscovery is called on its own.
NoScanner ==
  /\ toolsPath = MissingTarget
  /\ toolSource = "local"
  /\ scanned = EmptyResults

\* this.globalPathResolved = null
Unresolved == [threw |-> FALSE, path |-> <<>>, source |-> "none", exists |-> FALSE]

\* The CLI action is not running.
NoCli ==
  /\ cliGlobalPath = Unresolved
  /\ process = "running"
  /\ server = "none"
  /\ warned = FALSE

\* The constructor of MultiSourceToolDiscovery: the global path of the
\* configuration, or the default resolution when none is given.
constructorConfig(supplied, env, home) ==
  [globalPath |->
     IF truthy(supplied) THEN supplied.value
     ELSE resolveGlobalToolsPath([cliPath |-> Undefined, validate |-> TRUE],
                                 env, home, FALSE).path]

\* The constructor throws when it resolves the default and that throws.
constructorThrows(supplied, env, home) ==
  /\ ~truthy(supplied)
  /\ resolveGlobalToolsPath([cliPath |-> Undefined, validate |-> TRUE],
                            env, home, FALSE).threw

\* An existing directory with no file in it.
EmptyDirectory == [exists |-> TRUE, files |-> <<>>]

\* discoverTools is called.
Start ==
  /\ pc = "discoverGlobalTools"
  /\ idx = 1
  /\ discoveredTools = <<>>
  /\ globalResults = EmptyResults
  /\ localResults = EmptyResults
  /\ merged = EmptyResults
  /\ globalPathResolved = Unresolved
  /\ serverTools = <<>>
  /\ NoCli
  /\ NoScanner

\* A user's process with no environment value and no global path configured;
\* the default global directory exists.
DefaultEnvironment ==
  /\ processEnv = Undefined
  /\ processHome = HomeUser
  /\ options = [cliPath |-> Undefined, validate |-> TRUE]
  /\ config = constructorConfig(Undefined, Undefined, HomeUser)
  /\ globalRoot = EmptyDirectory

\* The two directories hold tool files that throw on load or export a tool.
Init ==
  /\ DefaultEnvironment
  /\ Start
  /\ globalDir \in Directories(ToolFiles, MaxGlobalFiles)
  /\ localDir \in Directories(ToolFiles, MaxLocalFiles)

\* One directory holds files of every kind and the other is missing.
ScanInit ==
  /\ \E d \in Directories(Files, MaxScanFiles) :
       \/ globalDir = d /\ localDir = MissingDirectory
       \/ globalDir = MissingDirectory /\ localDir = d
  /\ DefaultEnvironment
  /\ Start

\* A mutant of discoverGlobalToolsEntry: a failed resolution gives the empty
\* result.
discoverGlobalToolsEntryAbsorbing(resolved, toolsDirExists) ==
  IF resolved.threw THEN "empty"
  ELSE IF ~resolved.exists THEN "empty"
  ELSE IF ~toolsDirExists THEN "empty"
  ELSE "scan"

\* discoverGlobalTools before the scan: the error of the resolution is not
\* caught; a missing global directory and a missing tools subdirectory give
\* the empty result.
discoverGlobalToolsEntry(resolved, toolsDirExists) ==
  IF resolved.threw THEN "threw"
  ELSE IF ~resolved.exists THEN "empty"
  ELSE IF ~toolsDirExists THEN "empty"
  ELSE "scan"

\* A mutant of afterGlobalTools: the merge does not wait for the local scan.
afterGlobalToolsMerge == "mergeResults"

\* discoverTools awaits discoverGlobalTools and then calls discoverLocalTools.
afterGlobalTools == "discoverLocalTools"

\* discoverGlobalTools up to the scan of the tools subdirectory.
DiscoverGlobalTools ==
  /\ pc = "discoverGlobalTools"
  /\ \E resolved \in
          {resolveGlobalToolsPath([cliPath |-> Defined(config.globalPath),
                                   validate |-> TRUE],
                                  processEnv, processHome, globalRoot.exists)} :
     LET entry == discoverGlobalToolsEntry(resolved, globalDir.exists)
     IN  /\ globalPathResolved' = IF resolved.threw THEN globalPathResolved ELSE resolved
         /\ pc' = CASE entry = "threw" -> "threw"
                    [] entry = "empty" -> afterGlobalTools
                    [] entry = "scan" -> "scanGlobal"
         /\ globalResults' = IF entry = "empty" THEN EmptyResults ELSE globalResults
  /\ warned' = resolveGlobalToolsPathWarns([cliPath |-> Defined(config.globalPath),
                                            validate |-> TRUE],
                                           processEnv, processHome)
  /\ idx' = 1
  /\ discoveredTools' = <<>>
  /\ UNCHANGED <<globalDir, localDir, localResults, merged, envVars, serverTools,
                 scannerVars, cliVars>>

\* discoverLocalTools up to the scan.
DiscoverLocalTools ==
  /\ pc = "discoverLocalTools"
  /\ IF localDir.exists
       THEN /\ pc' = "scanLocal"
            /\ UNCHANGED localResults
       ELSE /\ pc' = "mergeResults"
            /\ localResults' = EmptyResults
  /\ idx' = 1
  /\ discoveredTools' = <<>>
  /\ UNCHANGED <<globalDir, localDir, globalResults, merged,
               envVars, globalPathResolved, serverTools, scannerVars,
                 cliVars, warned>>

\* One iteration of the loop over the files of the global directory.
ScanGlobalFile ==
  /\ pc = "scanGlobal"
  /\ idx <= Len(globalDir.files)
  /\ discoveredTools' = scanFile(discoveredTools, "global", globalDir.files[idx], idx)
  /\ idx' = idx + 1
  /\ UNCHANGED <<globalDir, localDir, pc, globalResults, localResults, merged,
               envVars, globalPathResolved, serverTools, scannerVars,
                 cliVars, warned>>

\* The global scan returns.
ScanGlobalReturn ==
  /\ pc = "scanGlobal"
  /\ idx > Len(globalDir.files)
  /\ globalResults' = scanResults("global", discoveredTools)
  /\ pc' = afterGlobalTools
  /\ UNCHANGED <<globalDir, localDir, idx, discoveredTools, localResults, merged,
               envVars, globalPathResolved, serverTools, scannerVars,
                 cliVars, warned>>

\* One iteration of the loop over the files of the local directory.
ScanLocalFile ==
  /\ pc = "scanLocal"
  /\ idx <= Len(localDir.files)
  /\ discoveredTools' = scanFile(discoveredTools, "local", localDir.files[idx], idx)
  /\ idx' = idx + 1
  /\ UNCHANGED <<globalDir, localDir, pc, globalResults, localResults, merged,
               envVars, globalPathResolved, serverTools, scannerVars,
                 cliVars, warned>>

\* The local scan returns.
ScanLocalReturn ==
  /\ pc = "scanLocal"
  /\ idx > Len(localDir.files)
  /\ localResults' = scanResults("local", discoveredTools)
  /\ pc' = "mergeResults"
  /\ UNCHANGED <<globalDir, localDir, idx, discoveredTools, globalResults, merged,
               envVars, globalPathResolved, serverTools, scannerVars,
                 cliVars, warned>>

\* discoverTools returns mergeResults(globalResults, localResults).
MergeResults ==
  /\ pc = "mergeResults"
  /\ merged' = mergeResults(globalResults, localResults)
  /\ pc' = "done"
  /\ UNCHANGED <<globalDir, localDir, idx, discoveredTools, globalResults, localResults,
               envVars, globalPathResolved, serverTools, scannerVars,
                 cliVars, warned>>

\* A mutant of extractTools: the discovered entries are handed on as they are.
extractToolsWithMetadata(results) == results.tools

\* DiscoveryResultsUtils.extractTools
extractTools(results) == [i \in DOMAIN results.tools |-> results.tools[i].tool]

\* The caller of discoverTools extracts the tools for the MCP server.
ExtractTools ==
  /\ pc = "done"
  /\ serverTools' = extractTools(merged)
  /\ pc' = "handoff"
  /\ UNCHANGED <<globalDir, localDir, idx, discoveredTools, globalResults, localResults,
                 merged, envVars, globalPathResolved, scannerVars,
                 cliVars, warned>>

Next ==
  \/ DiscoverGlobalTools
  \/ ScanGlobalFile
  \/ ScanGlobalReturn
  \/ DiscoverLocalTools
  \/ ScanLocalFile
  \/ ScanLocalReturn
  \/ MergeResults
  \/ ExtractTools

Spec == Init /\ [][Next]_vars

ScanSpec == ScanInit /\ [][Next]_vars

---------------------------------------------------------------------------
\* One call of resolveGlobalToolsPath.

\* The values of the --global-tools-path option.
CliPaths ==
  {Undefined, Defined(<<>>)}
    \cup {Defined(v) : v \in {PathOptTools, PathTmp, PathTmpTools, PathTmpUpper,
                               PathTmpfoo, PathEtcSlash, PathRoot, PathUsrLocalBinX,
                               PathDotDotEtc, PathTildeTools, PathTilde, PathRelative}}

\* The values of the environment variable.
EnvValues ==
  {Undefined, Defined(<<>>), Defined(PathOptEnv), Defined(PathTildeEnv),
   Defined(PathVarEnv)}

ResolveInit ==
  /\ options \in [cliPath : CliPaths, validate : {TRUE}]
  /\ processEnv \in EnvValues
  /\ processHome \in Homes
  /\ globalRoot \in {MissingDirectory, EmptyDirectory}
  /\ config = constructorConfig(Defined(PathOptTools), Undefined, HomeUser)
  /\ globalDir = MissingDirectory
  /\ localDir = MissingDirectory
  /\ pc = "resolveGlobalToolsPath"
  /\ idx = 1
  /\ discoveredTools = <<>>
  /\ globalResults = EmptyResults
  /\ localResults = EmptyResults
  /\ merged = EmptyResults
  /\ globalPathResolved = Unresolved
  /\ serverTools = <<>>
  /\ NoCli
  /\ NoScanner

\* resolveGlobalToolsPath(options) returns or throws.
ResolveGlobalToolsPath ==
  /\ pc = "resolveGlobalToolsPath"
  /\ LET resolved ==
           resolveGlobalToolsPath(options, processEnv, processHome, globalRoot.exists)
     IN  /\ globalPathResolved' = resolved
         /\ pc' = IF resolved.threw THEN "threw" ELSE "returned"
  /\ warned' = resolveGlobalToolsPathWarns(options, processEnv, processHome)
  /\ UNCHANGED <<globalDir, localDir, idx, discoveredTools, globalResults, localResults,
                 merged, envVars, serverTools, scannerVars, cliVars>>

ResolveNext == ResolveGlobalToolsPath

ResolveSpec == ResolveInit /\ [][ResolveNext]_vars

---------------------------------------------------------------------------
\* discoverTools with the global path of every configuration.

\* The tool files named alpha and beta.
FewToolFiles == {[ext |-> "ts", module |-> ToolModule(n)] : n \in {alpha, beta}}

\* The globalPath given to the constructor.
ConfigPaths ==
  {Undefined, Defined(PathTildeTools), Defined(PathOptTools), Defined(PathTmpTools),
   Defined(PathEtcSlash)}

DiscoverInit ==
  /\ processEnv \in {Undefined, Defined(PathOptEnv)}
  /\ processHome \in {HomeUser, HomeService}
  /\ options = [cliPath |-> Undefined, validate |-> TRUE]
  /\ \E supplied \in ConfigPaths :
       /\ ~constructorThrows(supplied, processEnv, processHome)
       /\ config = constructorConfig(supplied, processEnv, processHome)
  /\ globalRoot \in Directories(FewToolFiles, MaxDiscoverFiles)
  /\ globalDir \in Directories(FewToolFiles, MaxDiscoverFiles)
  /\ globalDir.exists => globalRoot.exists
  /\ localDir \in Directories(FewToolFiles, MaxDiscoverFiles)
  /\ Start

DiscoverSpec == DiscoverInit /\ [][Next]_vars

---------------------------------------------------------------------------
\* What the claims speak of.

Done == pc = "done"

KeyOf(entry) == toLowerCase(entry.tool.name)

KeysOf(tools) == {KeyOf(tools[i]) : i \in DOMAIN tools}

WithKey(tools, k) == {i \in DOMAIN tools : KeyOf(tools[i]) = k}

FirstWithKey(tools, k) ==
  tools[CHOOSE i \in WithKey(tools, k) : \A j \in WithKey(tools, k) : i <= j]

LastWithKey(tools, k) ==
  tools[CHOOSE i \in WithKey(tools, k) : \A j \in WithKey(tools, k) : i >= j]

Range(s) == {s[i] : i \in DOMAIN s}

NamesOf(tools) == [i \in DOMAIN tools |-> tools[i].tool.name]

SourcesOf(tools) == [i \in DOMAIN tools |-> tools[i].source]

DistinctKeys(tools) == Cardinality(KeysOf(tools)) = Len(tools)

SharedKeys == KeysOf(globalResults.tools) \cap KeysOf(localResults.tools)

\* The names of the model in the order of the default collation
\* (localeCompare) and in the order of their code units.
CollationOrder == <<alpha, beta, Beta, gamma, Zeta>>
CodeUnitOrder == <<Beta, Zeta, alpha, beta, gamma>>

Rank(order, n) == CHOOSE i \in DOMAIN order : order[i] = n

Ascending(names, order) ==
  \A i, j \in DOMAIN names : i < j => Rank(order, names[i]) < Rank(order, names[j])

\* The entries of one source are in the given order of names.
AscendingPerSource(tools, order) ==
  \A i, j \in DOMAIN tools :
    (i < j /\ tools[i].source = tools[j].source)
      => Rank(order, tools[i].tool.name) < Rank(order, tools[j].tool.name)

\* C1: for every lower-cased name k among the local entries, the merged
\* result holds exactly one entry with key k; it is the last local entry
\* with that key and its source is local (no global entry with key k is
\* left).
C1_LocalAlwaysWins ==
  Done =>
    \A k \in KeysOf(localResults.tools) :
      /\ Cardinality(WithKey(merged.tools, k)) = 1
      /\ \A i \in WithKey(merged.tools, k) :
           /\ merged.tools[i] = LastWithKey(localResults.tools, k)
           /\ merged.tools[i].source = "local"

\* A key held by a global entry and by two local entries has been merged.
C1_Witness ==
  /\ Done
  /\ \E k \in SharedKeys : Cardinality(WithKey(localResults.tools, k)) = 2

\* C2, as stated: for every global entry and every local entry whose names
\* are equal ignoring case, the merged result holds one entry for them, that
\* entry is this local entry, and the conflict list holds this local entry's
\* name.
C2_AsStated ==
  Done =>
    \A i \in DOMAIN globalResults.tools, j \in DOMAIN localResults.tools :
      KeyOf(globalResults.tools[i]) = KeyOf(localResults.tools[j])
        => LET k == KeyOf(localResults.tools[j])
           IN  /\ Cardinality(WithKey(merged.tools, k)) = 1
               /\ \A m \in WithKey(merged.tools, k) :
                    merged.tools[m] = localResults.tools[j]
               /\ localResults.tools[j].tool.name \in Range(merged.summary.conflicts)

\* C2, amended: for every key held by a global and by a local entry, the
\* merged result holds one entry for the key, it is the last local entry
\* with that key, and the conflict list holds the original-case name of the
\* first local entry with that key; global "Beta" and a single local "beta"
\* give one entry, the local one, and the conflict "beta".
C2_CaseInsensitiveConflict ==
  Done =>
    /\ \A k \in SharedKeys :
         /\ Cardinality(WithKey(merged.tools, k)) = 1
         /\ \A m \in WithKey(merged.tools, k) :
              merged.tools[m] = LastWithKey(localResults.tools, k)
         /\ FirstWithKey(localResults.tools, k).tool.name
              \in Range(merged.summary.conflicts)
    /\ (/\ NamesOf(globalResults.tools) = <<Beta>>
        /\ NamesOf(localResults.tools) = <<beta>>)
         => /\ merged.tools = localResults.tools
            /\ merged.summary.conflicts = <<beta>>

\* Global "Beta" and local "beta" have been merged.
C2_Witness ==
  /\ Done
  /\ NamesOf(globalResults.tools) = <<Beta>>
  /\ NamesOf(localResults.tools) = <<beta>>
  /\ merged.summary.conflicts = <<beta>>

\* C3: the conflict list holds one name for each key held by both sources
\* and no other name; a key held by one source only, even twice, gives no
\* conflict and the later entry of that source is the merged one.
C3_ConflictsOnlyBetweenSources ==
  Done =>
    /\ Len(merged.summary.conflicts) = Cardinality(SharedKeys)
    /\ {toLowerCase(c) : c \in Range(merged.summary.conflicts)} = SharedKeys
    /\ \A k \in KeysOf(localResults.tools) \ SharedKeys :
         \A m \in WithKey(merged.tools, k) :
           merged.tools[m] = LastWithKey(localResults.tools, k)
    /\ \A k \in KeysOf(globalResults.tools) \ SharedKeys :
         \A m \in WithKey(merged.tools, k) :
           merged.tools[m] = LastWithKey(globalResults.tools, k)

\* Two local entries share a key no global entry has; no conflict is listed.
C3_Witness ==
  /\ Done
  /\ \E k \in KeysOf(localResults.tools) \ SharedKeys :
       Cardinality(WithKey(localResults.tools, k)) = 2
  /\ globalResults.tools # <<>>
  /\ merged.summary.conflicts = <<>>

\* C4, as stated: with an empty global result the merged entries are the
\* local entries, in the same order, and there is no conflict; the same with
\* the sources exchanged.
C4_AsStated ==
  Done =>
    /\ globalResults.tools = <<>>
         => merged.tools = localResults.tools /\ merged.summary.conflicts = <<>>
    /\ localResults.tools = <<>>
         => merged.tools = globalResults.tools /\ merged.summary.conflicts = <<>>

\* The merge of the single non-empty result r.
PassthroughOf(r) ==
  /\ merged.summary.conflicts = <<>>
  /\ Range(merged.tools) = {LastWithKey(r.tools, k) : k \in KeysOf(r.tools)}
  /\ Len(merged.tools) = Cardinality(KeysOf(r.tools))
  /\ Ascending(NamesOf(merged.tools), CollationOrder)
  /\ (DistinctKeys(r.tools) /\ Ascending(NamesOf(r.tools), CollationOrder))
       => merged.tools = r.tools

\* C4, amended: with one result empty there is no conflict and the merged
\* entries are the entries of the other result that are the last with their
\* lower-cased name, in ascending localeCompare order of name; they are the
\* other result's entries unchanged, in the same order, when its lower-cased
\* names are distinct and already in that order.
C4_Passthrough ==
  Done =>
    /\ globalResults.tools = <<>> => PassthroughOf(localResults)
    /\ localResults.tools = <<>> => PassthroughOf(globalResults)

\* Two local entries and no global one came back unchanged.
C4_Witness ==
  /\ Done
  /\ globalResults.tools = <<>>
  /\ Len(localResults.tools) = 2
  /\ merged.tools = localResults.tools

\* C5, as stated: when no name is in both results, the merged result has
\* |G.entries| + |L.entries| entries and no conflict.
C5_AsStated ==
  Done =>
    (Range(NamesOf(globalResults.tools)) \cap Range(NamesOf(localResults.tools)) = {}
       => /\ Len(merged.tools) = Len(globalResults.tools) + Len(localResults.tools)
          /\ merged.summary.conflicts = <<>>)

\* C5, amended: when no lower-cased name is in both results, the merged
\* result has one entry for each distinct lower-cased name of G and of L and
\* no conflict; that is |G.entries| + |L.entries| entries when no lower-cased
\* name occurs twice within a source.
C5_DisjointUnion ==
  Done =>
    (SharedKeys = {}
       => /\ Len(merged.tools) =
               Cardinality(KeysOf(globalResults.tools))
                 + Cardinality(KeysOf(localResults.tools))
          /\ merged.summary.conflicts = <<>>
          /\ (DistinctKeys(globalResults.tools) /\ DistinctKeys(localResults.tools))
               => Len(merged.tools) =
                    Len(globalResults.tools) + Len(localResults.tools))

\* Two global and two local entries with four different keys were merged.
C5_Witness ==
  /\ Done
  /\ SharedKeys = {}
  /\ Cardinality(KeysOf(globalResults.tools)) = 2
  /\ Cardinality(KeysOf(localResults.tools)) = 2
  /\ Len(merged.tools) = 4

C7_SummaryRecomputed ==
  Done =>
    /\ merged.summary.total = Len(merged.tools)
    /\ merged.summary.global =
         Cardinality({i \in DOMAIN merged.tools : merged.tools[i].source = "global"})
    /\ merged.summary.local =
         Cardinality({i \in DOMAIN merged.tools : merged.tools[i].source = "local"})
    /\ merged.summary.total = merged.summary.global + merged.summary.local
    /\ SharedKeys # {}
         => /\ merged.summary.total
                 < globalResults.summary.total + localResults.summary.total
            /\ merged.summary.global
                 < globalResults.summary.global + localResults.summary.global

\* A global entry was overridden and another global entry is left.
C7_Witness ==
  /\ Done
  /\ SharedKeys # {}
  /\ merged.summary.global = 1
  /\ globalResults.summary.global = 2

\* C8: in the merged entries every global entry precedes every local entry.
C8_GlobalBeforeLocal ==
  Done =>
    \A i, j \in DOMAIN merged.tools :
      (merged.tools[i].source = "global" /\ merged.tools[j].source = "local") => i < j

\* A global entry precedes a local entry whose name comes first in both
\* orders of names.
C8_Witness ==
  /\ Done
  /\ \E i, j \in DOMAIN merged.tools :
       /\ merged.tools[i].source = "global"
       /\ merged.tools[j].source = "local"
       /\ Rank(CollationOrder, merged.tools[j].tool.name)
            < Rank(CollationOrder, merged.tools[i].tool.name)
       /\ Rank(CodeUnitOrder, merged.tools[j].tool.name)
            < Rank(CodeUnitOrder, merged.tools[i].tool.name)

\* C9, as stated: the merged entries of one source are in ascending order of
\* the code units of their names ("Zeta" before "alpha") and the conflict
\* list is in ascending order of code units.
C9_AsStated ==
  Done =>
    /\ AscendingPerSource(merged.tools, CodeUnitOrder)
    /\ Ascending(merged.summary.conflicts, CodeUnitOrder)

\* C9, amended: the merged entries of one source are in ascending
\* localeCompare order of name, the order of the default collation, in which
\* letters compare ignoring case first ("alpha" before "Zeta"); the conflict
\* list is in ascending order of code units ("Zeta" before "alpha").
C9_NameOrdering ==
  Done =>
    /\ AscendingPerSource(merged.tools, CollationOrder)
    /\ Ascending(merged.summary.conflicts, CodeUnitOrder)

\* Local alpha and Zeta overrode global ones: the entries are alpha, Zeta and
\* the conflicts Zeta, alpha.
C9_Witness ==
  /\ Done
  /\ NamesOf(merged.tools) = <<alpha, Zeta>>
  /\ merged.summary.conflicts = <<Zeta, alpha>>

\* The file is a candidate whose module loads and exports a tool.
ValidCandidate(file) ==
  /\ file.ext \in {"js", "ts", "mjs"}
  /\ \E n \in Names : file.module = ToolModule(n)

\* The entries of the valid candidates among the first n files, in the
\* order of the listing.
ValidEntries(files, source, n) ==
  LET f[m \in 0..n] ==
        IF m = 0 THEN <<>>
        ELSE IF ValidCandidate(files[m])
          THEN Append(f[m - 1], [tool |-> files[m].module.default, source |-> source,
                                 sourcePath |-> source, filename |-> m])
          ELSE f[m - 1]
  IN  f[n]

Candidates(files) == {i \in DOMAIN files : files[i].ext \in {"js", "ts", "mjs"}}

Failing(files) == {i \in Candidates(files) : ~ValidCandidate(files[i])}

\* The scan of the directory dir returned r.
ScanIsolated(dir, source, r) ==
  /\ r.tools = ValidEntries(dir.files, source, Len(dir.files))
  /\ r.summary.total
       = Cardinality(Candidates(dir.files)) - Cardinality(Failing(dir.files))

\* C10: whatever the files of the listing do when loaded (throw, export
\* nothing, export something that is no tool, export a tool), the scan goes
\* through the whole listing and returns exactly the valid candidates, in
\* the order of the listing: after each file the entries pushed are those of
\* the valid candidates so far, and the result has as many entries as there
\* are candidates less the failing ones.
C10_PartialFailureIsolation ==
  /\ pc = "scanGlobal"
       => /\ idx <= Len(globalDir.files) + 1
          /\ discoveredTools = ValidEntries(globalDir.files, "global", idx - 1)
  /\ pc = "scanLocal"
       => /\ idx <= Len(localDir.files) + 1
          /\ discoveredTools = ValidEntries(localDir.files, "local", idx - 1)
  /\ (pc \in {"discoverLocalTools", "scanLocal", "mergeResults", "done"}
        /\ globalDir.exists)
       => ScanIsolated(globalDir, "global", globalResults)
  /\ (pc \in {"mergeResults", "done"} /\ localDir.exists)
       => ScanIsolated(localDir, "local", localResults)

\* Of three valid candidates but for the second, which threw on load, the
\* first and the third are returned.
C10_Witness ==
  /\ pc = "mergeResults"
  /\ Candidates(localDir.files) = {1, 2, 3}
  /\ Failing(localDir.files) = {2}
  /\ ~localDir.files[2].module.loads
  /\ Len(localResults.tools) = 2
  /\ localResults.tools[1].filename = 1
  /\ localResults.tools[2].filename = 3

---------------------------------------------------------------------------
\* discoverTools over directories whose tool names meet within a source.

\* Largest number of files in each directory.
MaxOrderFiles == 2

\* The tool files named alpha, beta and Beta.
OrderToolFiles == {[ext |-> "ts", module |-> ToolModule(n)] : n \in {alpha, beta, Beta}}

OrderInit ==
  /\ globalDir \in Directories(OrderToolFiles, MaxOrderFiles)
  /\ localDir \in Directories(OrderToolFiles, MaxOrderFiles)
  /\ DefaultEnvironment
  /\ Start

OrderSpec == OrderInit /\ [][Next]_vars

---------------------------------------------------------------------------
\* One call of ToolDiscovery.discoverToolsWithMetadata.

\* Largest number of files in the directory of the call.
MaxEntryFiles == 1

\* The default exports that are not null: an object or a function, whose name
\* is a string (empty or not) or no string, whose run is a function or not,
\* and whose inputSchema is an object, null or a number.
Exports ==
  {[typeOf |-> t, isNull |-> FALSE, name |-> n.name, nameIsString |-> n.isString,
    runIsFunction |-> r, schemaIsObject |-> sc.isObject, schemaIsNull |-> sc.isNull] :
     t \in {"object", "function"},
     n \in {[name |-> alpha, isString |-> TRUE], [name |-> <<>>, isString |-> TRUE],
            [name |-> <<>>, isString |-> FALSE]},
     r \in BOOLEAN,
     sc \in {[isObject |-> TRUE, isNull |-> FALSE], [isObject |-> TRUE, isNull |-> TRUE],
             [isObject |-> FALSE, isNull |-> FALSE]}}

\* A default export that is a string.
StringExport == [ToolExport(alpha) EXCEPT !.typeOf = "string"]

\* The files of the directory of the call.
EntryFiles ==
  {[ext |-> "md", module |-> NoDefaultModule],
   [ext |-> "ts", module |-> ThrowingModule],
   [ext |-> "ts", module |-> NoDefaultModule],
   [ext |-> "ts", module |-> [loads |-> TRUE, default |-> StringExport]]}
    \cup {[ext |-> "ts", module |-> [loads |-> TRUE, default |-> e]] : e \in Exports}

ToolDiscoveryInit ==
  /\ toolsPath \in
       {MissingTarget, FileTarget}
         \cup {DirectoryTarget(l, f) : l \in BOOLEAN, f \in Listings(EntryFiles, MaxEntryFiles)}
  /\ toolSource \in {"global", "local"}
  /\ scanned = EmptyResults
  /\ globalDir = MissingDirectory
  /\ localDir = MissingDirectory
  /\ DefaultEnvironment
  /\ pc = "existsSync"
  /\ idx = 1
  /\ discoveredTools = <<>>
  /\ globalResults = EmptyResults
  /\ localResults = EmptyResults
  /\ merged = EmptyResults
  /\ globalPathResolved = Unresolved
  /\ serverTools = <<>>
  /\ NoCli

\* fs.existsSync
existsSync(target) == target.kind # "missing" /\ ~target.removed

\* A mutant of isDirectory: what is there is taken for a directory.
isDirectoryAlways(target) == TRUE

\* statSync(...).isDirectory()
isDirectory(target) == target.kind = "directory"

\* if (!existsSync(this.toolsPath)) return the empty result
ExistsSync ==
  /\ pc = "existsSync"
  /\ IF existsSync(toolsPath)
       THEN pc' = "statSync" /\ UNCHANGED scanned
       ELSE pc' = "returned" /\ scanned' = EmptyResults
  /\ UNCHANGED <<globalDir, localDir, idx, discoveredTools, globalResults, localResults,
                 merged, envVars, globalPathResolved, serverTools, toolsPath, toolSource,
                 cliVars, warned>>

\* statSync(this.toolsPath), which throws when nothing is there any more;
\* what is no directory gives the empty result.
StatSync ==
  /\ pc = "statSync"
  /\ IF ~existsSync(toolsPath)
       THEN pc' = "threw" /\ UNCHANGED scanned
       ELSE IF ~isDirectory(toolsPath)
         THEN pc' = "returned" /\ scanned' = EmptyResults
         ELSE pc' = "readdirSync" /\ UNCHANGED scanned
  /\ UNCHANGED <<globalDir, localDir, idx, discoveredTools, globalResults, localResults,
                 merged, envVars, globalPathResolved, serverTools, toolsPath, toolSource,
                 cliVars, warned>>

\* readdirSync(this.toolsPath), which throws when the directory is gone, is
\* no directory or cannot be read.
ReaddirSync ==
  /\ pc = "readdirSync"
  /\ IF existsSync(toolsPath) /\ toolsPath.kind = "directory" /\ toolsPath.listable
       THEN pc' = "loadFiles"
       ELSE pc' = "threw"
  /\ idx' = 1
  /\ discoveredTools' = <<>>
  /\ UNCHANGED <<globalDir, localDir, globalResults, localResults, merged, envVars,
                 globalPathResolved, serverTools, scannerVars,
                 cliVars, warned>>

\* One pass of the loop over the listing.
LoadFile ==
  /\ pc = "loadFiles"
  /\ idx <= Len(toolsPath.files)
  /\ discoveredTools' = scanFile(discoveredTools, toolSource, toolsPath.files[idx], idx)
  /\ idx' = idx + 1
  /\ UNCHANGED <<globalDir, localDir, pc, globalResults, localResults, merged, envVars,
                 globalPathResolved, serverTools, scannerVars,
                 cliVars, warned>>

\* The return after the loop.
ScanReturn ==
  /\ pc = "loadFiles"
  /\ idx > Len(toolsPath.files)
  /\ scanned' = scanResults(toolSource, discoveredTools)
  /\ pc' = "returned"
  /\ UNCHANGED <<globalDir, localDir, idx, discoveredTools, globalResults, localResults,
                 merged, envVars, globalPathResolved, serverTools, toolsPath, toolSource,
                 cliVars, warned>>

\* Another process removes what is at the path between two calls of fs.
RemoveTarget ==
  /\ pc \in {"statSync", "readdirSync"}
  /\ existsSync(toolsPath)
  /\ toolsPath' = [toolsPath EXCEPT !.removed = TRUE]
  /\ UNCHANGED <<globalDir, localDir, pc, idx, discoveredTools, globalResults,
                 localResults, merged, envVars, globalPathResolved, serverTools,
                 toolSource, scanned,
                 cliVars, warned>>

ToolDiscoveryNext ==
  \/ ExistsSync
  \/ StatSync
  \/ ReaddirSync
  \/ LoadFile
  \/ ScanReturn
  \/ RemoveTarget

ToolDiscoverySpec == ToolDiscoveryInit /\ [][ToolDiscoveryNext]_vars

---------------------------------------------------------------------------
\* The action of the CLI that serves the tools of a folder.

\* Largest number of files in each directory.
MaxCliFiles == 2

\* The tool files named alpha and Zeta.
CliToolFiles == {[ext |-> "ts", module |-> ToolModule(n)] : n \in {alpha, Zeta}}

\* No MultiSourceToolDiscovery has been constructed.
NoConfig == [globalPath |-> <<>>]

CliInit ==
  /\ options \in [cliPath : {Undefined, Defined(PathOptTools), Defined(PathTmpTools)},
                   validate : {TRUE}]
  /\ processEnv \in {Undefined, Defined(PathOptEnv)}
  /\ processHome = HomeUser
  /\ globalRoot \in {MissingDirectory, EmptyDirectory}
  /\ globalDir \in Directories(CliToolFiles, MaxCliFiles)
  /\ globalDir.exists => globalRoot.exists
  /\ localDir \in Directories(CliToolFiles, MaxCliFiles)
  /\ config = NoConfig
  /\ pc = "cli"
  /\ idx = 1
  /\ discoveredTools = <<>>
  /\ globalResults = EmptyResults
  /\ localResults = EmptyResults
  /\ merged = EmptyResults
  /\ globalPathResolved = Unresolved
  /\ serverTools = <<>>
  /\ NoCli
  /\ NoScanner

RECURSIVE scanFrom(_, _, _, _)
\* The loop of discoverToolsWithMetadata from the i-th file of the listing on.
scanFrom(source, files, i, discovered) ==
  IF i > Len(files) THEN discovered
  ELSE scanFrom(source, files, i + 1, scanFile(discovered, source, files[i], i))

\* ToolDiscovery.discoverToolsWithMetadata on a directory that can be listed
\* or is missing.
discoverToolsWithMetadata(source, dir) ==
  IF ~dir.exists THEN EmptyResults
  ELSE scanResults(source, scanFrom(source, dir.files, 1, <<>>))

\* ToolDiscovery.discoverTools
discoverTools(dir) ==
  LET results == discoverToolsWithMetadata("local", dir)
  IN  [i \in DOMAIN results.tools |-> results.tools[i].tool]

\* A mutant of useMultiSource: multi-source discovery is always run.
useMultiSourceAlways(globalPath) == TRUE

\* if (globalPath.exists)
useMultiSource(globalPath) == globalPath.exists

\* A mutant of enhancedResultsExit: empty results do not end the process.
enhancedResultsNeverExit(results) == FALSE

\* displayEnhancedToolResults ends the process when the results are empty.
enhancedResultsExit(results) == results.summary.total = 0

\* The action resolves the global path; an error is caught and ends the
\* process.  With an existing global directory it constructs the
\* MultiSourceToolDiscovery and calls discoverTools.
CliResolveGlobalToolsPath ==
  /\ pc = "cli"
  /\ LET resolved ==
           resolveGlobalToolsPath(options, processEnv, processHome, globalRoot.exists)
     IN  IF resolved.threw
           THEN /\ pc' = "exited"
                /\ process' = "exited(1)"
                /\ UNCHANGED <<cliGlobalPath, config>>
           ELSE /\ cliGlobalPath' = resolved
                /\ UNCHANGED process
                /\ IF useMultiSource(resolved)
                     THEN /\ config' = constructorConfig(Defined(resolved.path),
                                                         processEnv, processHome)
                          /\ pc' = "discoverGlobalTools"
                     ELSE /\ pc' = "singleSource"
                          /\ UNCHANGED config
  /\ warned' = resolveGlobalToolsPathWarns(options, processEnv, processHome)
  /\ UNCHANGED <<globalDir, localDir, idx, discoveredTools, globalResults, localResults,
                 merged, options, processEnv, processHome, globalRoot,
                 globalPathResolved, serverTools, scannerVars, server>>

\* Single-source discovery: the tools of the local folder, and the end of the
\* process when there is none.
SingleSourceDiscovery ==
  /\ pc = "singleSource"
  /\ serverTools' = discoverTools(localDir)
  /\ IF Len(serverTools') = 0
       THEN pc' = "exited" /\ process' = "exited(1)"
       ELSE pc' = "newMCPServer" /\ UNCHANGED process
  /\ UNCHANGED <<globalDir, localDir, idx, discoveredTools, globalResults, localResults,
                 merged, envVars, globalPathResolved, scannerVars, cliGlobalPath, server,
                 warned>>

\* displayEnhancedToolResults, after the tools of the multi-source discovery
\* have been extracted.
DisplayEnhancedToolResults ==
  /\ pc = "handoff"
  /\ IF enhancedResultsExit(merged)
       THEN pc' = "exited" /\ process' = "exited(1)"
       ELSE pc' = "newMCPServer" /\ UNCHANGED process
  /\ UNCHANGED <<globalDir, localDir, idx, discoveredTools, globalResults, localResults,
                 merged, envVars, globalPathResolved, serverTools, scannerVars,
                 cliGlobalPath, server, warned>>

\* new MCPServer(name, version, tools)
NewMCPServer ==
  /\ pc = "newMCPServer"
  /\ server' = "constructed"
  /\ pc' = "serverStart"
  /\ UNCHANGED <<globalDir, localDir, idx, discoveredTools, globalResults, localResults,
                 merged, envVars, globalPathResolved, serverTools, scannerVars,
                 cliGlobalPath, process, warned>>

\* server.start()
ServerStart ==
  /\ pc = "serverStart"
  /\ server' = "started"
  /\ pc' = "serving"
  /\ UNCHANGED <<globalDir, localDir, idx, discoveredTools, globalResults, localResults,
                 merged, envVars, globalPathResolved, serverTools, scannerVars,
                 cliGlobalPath, process, warned>>

CliNext ==
  \/ CliResolveGlobalToolsPath
  \/ SingleSourceDiscovery
  \/ Next
  \/ DisplayEnhancedToolResults
  \/ NewMCPServer
  \/ ServerStart

CliSpec == CliInit /\ [][CliNext]_vars

---------------------------------------------------------------------------
\* Claims about resolveGlobalToolsPath.  What the claims expect is written
\* down independently of the operators above.

\* An optional string that is given and not empty.
NonEmpty(opt) == opt # Undefined /\ opt.value # <<>>

\* The absolute path that each input path names for each home directory,
\* with the working directory /work.
ExpectedAbsolute(value, home) ==
  CASE value = PathOptTools -> <<47, 111, 112, 116, 47, 116, 111, 111, 108, 115>>
    [] value = PathTmp -> <<47, 116, 109, 112>>
    [] value = PathTmpTools -> <<47, 116, 109, 112, 47, 116, 111, 111, 108, 115>>
    [] value = PathTmpUpper -> <<47, 84, 77, 80, 47, 116, 111, 111, 108, 115>>
    [] value = PathTmpfoo -> <<47, 116, 109, 112, 102, 111, 111>>
    [] value = PathEtcSlash -> <<47, 101, 116, 99>>
    [] value = PathRoot -> <<47>>
    [] value = PathUsrLocalBinX -> <<47, 117, 115, 114, 47, 108, 111, 99, 97, 108, 47, 98, 105, 110, 47, 120>>
    [] value = PathDotDotEtc -> <<47, 101, 116, 99, 47, 114, 109, 99, 112>>
    [] value = PathTildeTools /\ home = HomeUser -> <<47, 104, 111, 109, 101, 47, 117, 47, 116, 111, 111, 108, 115>>
    [] value = PathTildeTools /\ home = HomeService -> <<47, 118, 97, 114, 47, 108, 105, 98, 47, 115, 118, 99, 47, 116, 111, 111, 108, 115>>
    [] value = PathTildeTools /\ home = HomeRoot -> <<47, 116, 111, 111, 108, 115>>
    [] value = PathTilde /\ home = HomeUser -> <<47, 104, 111, 109, 101, 47, 117>>
    [] value = PathTilde /\ home = HomeService -> <<47, 118, 97, 114, 47, 108, 105, 98, 47, 115, 118, 99>>
    [] value = PathTilde /\ home = HomeRoot -> <<47>>
    [] value = PathRelative -> <<47, 119, 111, 114, 107, 47, 116, 111, 111, 108, 115>>
    [] value = PathOptEnv -> <<47, 111, 112, 116, 47, 101, 110, 118>>
    [] value = PathTildeEnv /\ home = HomeUser -> <<47, 104, 111, 109, 101, 47, 117, 47, 101, 110, 118>>
    [] value = PathTildeEnv /\ home = HomeService -> <<47, 118, 97, 114, 47, 108, 105, 98, 47, 115, 118, 99, 47, 101, 110, 118>>
    [] value = PathTildeEnv /\ home = HomeRoot -> <<47, 101, 110, 118>>
    [] value = PathVarEnv -> <<47, 118, 97, 114, 47, 101, 110, 118>>

\* <home>/.rmcp-tools
ExpectedDefault(home) ==
  CASE home = HomeUser -> <<47, 104, 111, 109, 101, 47, 117, 47, 46, 114, 109, 99, 112, 45, 116, 111, 111, 108, 115>>
    [] home = HomeService -> <<47, 118, 97, 114, 47, 108, 105, 98, 47, 115, 118, 99, 47, 46, 114, 109, 99, 112, 45, 116, 111, 111, 108, 115>>
    [] home = HomeRoot -> <<47, 46, 114, 109, 99, 112, 45, 116, 111, 111, 108, 115>>

\* The source that the precedence gives.
ExpectedSource ==
  IF NonEmpty(options.cliPath) THEN "cli-flag"
  ELSE IF NonEmpty(processEnv) THEN "env-var"
  ELSE "default"

\* The absolute path that the precedence gives.
ExpectedPath ==
  IF NonEmpty(options.cliPath) THEN ExpectedAbsolute(options.cliPath.value, processHome)
  ELSE IF NonEmpty(processEnv) THEN ExpectedAbsolute(processEnv.value, processHome)
  ELSE ExpectedDefault(processHome)

\* The call of resolveGlobalToolsPath has ended.
Resolved == pc \in {"returned", "threw"}

\* The filesystem root.
Root == <<47>>

\* The system directories of the deny-list of a POSIX system.
DenyList ==
  {<<47>>,
   <<47, 98, 105, 110>>,
   <<47, 117, 115, 114>>,
   <<47, 117, 115, 114, 47, 98, 105, 110>>,
   <<47, 117, 115, 114, 47, 108, 111, 99, 97, 108>>,
   <<47, 117, 115, 114, 47, 108, 111, 99, 97, 108, 47, 98, 105, 110>>,
   <<47, 101, 116, 99>>,
   <<47, 118, 97, 114>>,
   <<47, 116, 109, 112>>,
   <<47, 83, 121, 115, 116, 101, 109>>,
   <<47, 76, 105, 98, 114, 97, 114, 121>>}

\* The path is inside the directory, at any depth.
NestedUnder(path, directory) ==
  IF directory = Root
    THEN Len(path) > Len(Root) /\ SubSeq(path, 1, Len(Root)) = Root
    ELSE /\ Len(path) > Len(directory) + Len(Root)
         /\ SubSeq(path, 1, Len(directory) + Len(Root)) = directory \o Root

\* C15: when resolveGlobalToolsPath returns, a non-empty explicit override
\* gives source 'cli-flag' and the override's absolute path, whatever the
\* environment value is; otherwise a non-empty environment value gives source
\* 'env-var' and its absolute path; otherwise the source is 'default'.  An
\* empty explicit override never gives 'cli-flag'.
C15_PathPrecedence ==
  pc = "returned" =>
    /\ globalPathResolved.source = ExpectedSource
    /\ globalPathResolved.path = ExpectedPath
    /\ options.cliPath = Defined(<<>>) => globalPathResolved.source # "cli-flag"

\* An explicit override has won over a set environment value.
C15_Witness ==
  /\ pc = "returned"
  /\ NonEmpty(options.cliPath)
  /\ NonEmpty(processEnv)
  /\ globalPathResolved.source = "cli-flag"
  /\ globalPathResolved.path # ExpectedAbsolute(processEnv.value, processHome)

\* C16: with no explicit override and no environment value,
\* resolveGlobalToolsPath returns source 'default' and <home>/.rmcp-tools for
\* every home directory, and does not throw.
C16_DefaultResolution ==
  Resolved /\ options.cliPath = Undefined /\ processEnv = Undefined =>
    /\ pc = "returned"
    /\ globalPathResolved.source = "default"
    /\ globalPathResolved.path = ExpectedDefault(processHome)

\* C17 as stated: a path that equals or is nested under any entry of the
\* deny-list, the filesystem root included, makes resolveGlobalToolsPath
\* throw.
C17_AsStated ==
  Resolved /\ (\E d \in DenyList : ExpectedPath = d \/ NestedUnder(ExpectedPath, d)) =>
    pc = "threw"

\* C17: a path that equals an entry of the deny-list, or is nested under an
\* entry other than the filesystem root, makes resolveGlobalToolsPath throw:
\* no ResolvedGlobalPath is returned and the existence of the path is not
\* looked at.
C17_ForbiddenPathRejection ==
  Resolved
    /\ (\E d \in DenyList :
          ExpectedPath = d \/ (d # Root /\ NestedUnder(ExpectedPath, d))) =>
    /\ pc = "threw"
    /\ globalPathResolved = ResolutionError

\* A call has thrown for an existing path nested two levels under /usr.
C17_Witness ==
  /\ pc = "threw"
  /\ options.cliPath = Defined(PathUsrLocalBinX)
  /\ globalRoot.exists
  /\ ~globalPathResolved.exists

---------------------------------------------------------------------------
\* Claims about discoverTools with a configured global path.

\* The absolute path that the configured global path names; the default and
\* the environment value come resolved from the constructor.
ExpectedConfigPath ==
  IF config.globalPath \in {PathTildeTools, PathOptTools, PathTmpTools, PathEtcSlash}
    THEN ExpectedAbsolute(config.globalPath, processHome)
    ELSE config.globalPath

\* The configured global path is a system directory or inside one.
ConfigRefused ==
  \E d \in DenyList :
    ExpectedConfigPath = d \/ (d # Root /\ NestedUnder(ExpectedConfigPath, d))

\* The tool files of a directory.
ToolFilesOf(dir) == {i \in DOMAIN dir.files : ValidCandidate(dir.files[i])}

\* C18: when the configured global path fails validation, discoverTools
\* throws: no result is returned, and the local directory is never scanned
\* and merged with an empty global result.
C18_ResolutionErrorsSurface ==
  pc # "discoverGlobalTools" /\ ConfigRefused =>
    /\ pc = "threw"
    /\ globalResults = EmptyResults
    /\ localResults = EmptyResults
    /\ merged = EmptyResults
    /\ serverTools = <<>>

\* discoverTools has thrown for a global path inside /tmp while the local
\* directory holds a tool.
C18_Witness ==
  /\ pc = "threw"
  /\ config.globalPath = PathTmpTools
  /\ ToolFilesOf(localDir) # {}

\* discoverTools has returned.
Returned == pc \in {"done", "handoff"}

\* C19: a valid tool file in the resolved global directory is discovered as a
\* 'global' entry, and is in the merged result unless a local tool has the
\* same name ignoring case.
C19_GlobalDirectoryDiscovered ==
  Returned =>
    \A i \in ToolFilesOf(globalRoot) :
      LET name == globalRoot.files[i].module.default.name
      IN  /\ \E j \in DOMAIN globalResults.tools :
                /\ globalResults.tools[j].source = "global"
                /\ globalResults.tools[j].tool.name = name
          /\ \/ \E j \in DOMAIN merged.tools :
                   /\ merged.tools[j].source = "global"
                   /\ merged.tools[j].tool.name = name
             \/ \E j \in DOMAIN localResults.tools :
                   toLowerCase(localResults.tools[j].tool.name) = toLowerCase(name)

\* C20: the tools handed to the MCP server are the tool descriptors of the
\* merged entries, as many and in the same order, without the fields source,
\* sourcePath and filename.
C20_ProvenanceStripped ==
  pc = "handoff" =>
    /\ Len(serverTools) = Len(merged.tools)
    /\ \A i \in DOMAIN serverTools :
         /\ serverTools[i] = merged.tools[i].tool
         /\ DOMAIN serverTools[i] \cap {"source", "sourcePath", "filename"} = {}

\* Tools of both sources have been handed to the server.
C20_Witness ==
  /\ pc = "handoff"
  /\ Len(serverTools) >= 2
  /\ {merged.tools[i].source : i \in DOMAIN merged.tools} = {"global", "local"}

---------------------------------------------------------------------------
\* Claims about one call of discoverToolsWithMetadata.

\* The call has ended.
ScanEnded == pc \in {"returned", "threw"}

\* The capability contract, on what loading a file yields.
MeetsContract(module) ==
  /\ module.loads
  /\ ~module.default.isNull
  /\ module.default.typeOf = "object"
  /\ module.default.nameIsString
  /\ module.default.runIsFunction
  /\ module.default.schemaIsObject
  /\ ~module.default.schemaIsNull

\* The entries of the returned result that come from the i-th file.
EntriesOfFile(i) == {j \in DOMAIN scanned.tools : scanned.tools[j].filename = i}

\* C11: when nothing is at the path, or a file is there and stays, the call
\* returns a result with no entry, zero counts and no conflict, and does not
\* throw, for either source.
C11_DegradeToEmpty ==
  ScanEnded /\ toolsPath.kind \in {"missing", "file"} /\ ~toolsPath.removed =>
    /\ pc = "returned"
    /\ scanned.tools = <<>>
    /\ scanned.summary.total = 0
    /\ scanned.summary.global = 0
    /\ scanned.summary.local = 0
    /\ scanned.summary.conflicts = <<>>

\* The global scanner has returned for a path that holds a file.
C11_Witness ==
  /\ pc = "returned"
  /\ toolsPath.kind = "file"
  /\ ~toolsPath.removed
  /\ toolSource = "global"
  /\ scanned.tools = <<>>

\* C12: discoverToolsWithMetadata never throws: a path removed after the
\* existence check and a directory that cannot be listed are absorbed like
\* every failure of a file.
C12_ScanNeverThrows == pc # "threw"

\* C13: a loaded default export gives an entry if and only if it is a
\* non-null object with a string name, a callable run and a non-null object
\* as inputSchema; the entry carries that export.
C13_CapabilityContract ==
  pc = "returned" /\ toolsPath.kind = "directory" =>
    \A i \in DOMAIN toolsPath.files :
      LET file == toolsPath.files[i]
      IN  file.ext \in {"js", "ts", "mjs"} /\ file.module.loads =>
            /\ EntriesOfFile(i) # {} <=> MeetsContract(file.module)
            /\ \A j \in EntriesOfFile(i) : scanned.tools[j].tool = file.module.default

\* An export that meets the contract has given an entry.
C13_Witness ==
  /\ pc = "returned"
  /\ toolsPath.kind = "directory"
  /\ \E i \in DOMAIN toolsPath.files :
       MeetsContract(toolsPath.files[i].module) /\ EntriesOfFile(i) # {}

\* C14: every entry of a returned result has a non-empty string as name.
C14_NonEmptyNames ==
  pc = "returned" =>
    \A j \in DOMAIN scanned.tools :
      scanned.tools[j].tool.nameIsString /\ scanned.tools[j].tool.name # <<>>

---------------------------------------------------------------------------
\* Further claims about mergeResults.

\* What the scan of a directory returns: an entry for each valid candidate,
\* and the counts of its source.
ExpectedResults(dir, source) ==
  LET entries == IF dir.exists THEN ValidEntries(dir.files, source, Len(dir.files))
                 ELSE <<>>
  IN  [tools |-> entries,
       summary |-> [total |-> Len(entries),
                    global |-> IF source = "global" THEN Len(entries) ELSE 0,
                    local |-> IF source = "local" THEN Len(entries) ELSE 0,
                    conflicts |-> <<>>]]

\* C24: in every result of mergeResults no two entries have names that are
\* equal ignoring case, also when one source holds such names twice.
C24_Deduplication ==
  Returned =>
    \A i, j \in DOMAIN merged.tools :
      toLowerCase(merged.tools[i].tool.name) = toLowerCase(merged.tools[j].tool.name)
        => i = j

\* The local source holds beta and Beta, the global source holds Beta, and
\* one entry is left.
C24_Witness ==
  /\ Returned
  /\ NamesOf(localResults.tools) = <<beta, Beta>>
  /\ NamesOf(globalResults.tools) = <<Beta>>
  /\ Len(merged.tools) = 1

\* C25: mergeResults leaves its two inputs as the scans returned them, and
\* every entry of its output is an entry of an input, unmodified.
C25_MergeIsPure ==
  Returned =>
    /\ globalResults = ExpectedResults(globalDir, "global")
    /\ localResults = ExpectedResults(localDir, "local")
    /\ \A i \in DOMAIN merged.tools :
         merged.tools[i] \in Range(globalResults.tools) \cup Range(localResults.tools)

\* A merge of a global Zeta, a global Beta and a local beta has returned.
C25_Witness ==
  /\ Returned
  /\ NamesOf(globalResults.tools) = <<Zeta, Beta>>
  /\ NamesOf(localResults.tools) = <<beta>>
  /\ NamesOf(merged.tools) = <<Zeta, beta>>
  /\ merged.summary.conflicts = <<beta>>

\* C26: every name of the conflict list is the name of a local entry of the
\* merged result, and a local entry's name is in the conflict list exactly
\* when the entry replaced a global one.
C26_ConflictsNameMergedLocals ==
  Returned =>
    /\ \A c \in Range(merged.summary.conflicts) :
         \E i \in DOMAIN merged.tools :
           merged.tools[i].source = "local" /\ merged.tools[i].tool.name = c
    /\ \A i \in DOMAIN merged.tools :
         merged.tools[i].source = "local" =>
           (merged.tools[i].tool.name \in Range(merged.summary.conflicts)
              <=> KeyOf(merged.tools[i]) \in KeysOf(globalResults.tools))

\* The global paths given to the constructor in the configuration.
SuppliedPaths == {PathTildeTools, PathOptTools, PathTmpTools, PathEtcSlash}

\* Where the global path of the configuration came from.
ConfigOrigin ==
  IF config.globalPath \in SuppliedPaths THEN "cli-flag"
  ELSE IF NonEmpty(processEnv) THEN "env-var"
  ELSE "default"

\* C29: after discoverTools, the source of getGlobalPathInfo() is 'cli-flag'
\* only if a globalPath was given in the configuration, 'env-var' if the path
\* came from the environment variable and 'default' if it is the default.
C29_TrueResolutionSource ==
  Returned => globalPathResolved.source = ConfigOrigin

\* C22: mergeResults starts only when discoverGlobalTools and
\* discoverLocalTools have both returned their results, and it runs once in a
\* call of discoverTools: the merged result is written by that step only,
\* and no step follows that leads back to it.
C22_MergeIsJoinPoint ==
  [][/\ pc' = "mergeResults" =>
          /\ pc \in {"discoverLocalTools", "scanLocal"}
          /\ globalResults' = ExpectedResults(globalDir, "global")
          /\ localResults' = ExpectedResults(localDir, "local")
     /\ merged' # merged => pc = "mergeResults"
     /\ pc = "mergeResults" => pc' = "done"
     /\ pc \in {"done", "handoff"} => pc' \in {"done", "handoff"}]_vars

\* The merge is about to start on two results that hold entries.
C22_Witness ==
  /\ pc = "mergeResults"
  /\ globalResults.tools # <<>>
  /\ localResults.tools # <<>>

---------------------------------------------------------------------------
\* The order in which the files of a directory are listed.

RECURSIVE ScanInOrder(_, _, _, _, _)
\* The entries of a scan that meets the files in the order p, after those
\* of its first i - 1 files; each entry keeps the file it comes from.
ScanInOrder(source, files, p, i, discovered) ==
  IF i > Len(files) THEN discovered
  ELSE ScanInOrder(source, files, p, i + 1,
                   scanFile(discovered, source, files[p[i]], p[i]))

\* The result of mergeResults when the global files are listed in the order
\* p and the local files in the order q.
MergedInOrder(p, q) ==
  mergeResults(
    IF globalDir.exists
      THEN scanResults("global", ScanInOrder("global", globalDir.files, p, 1, <<>>))
      ELSE EmptyResults,
    IF localDir.exists
      THEN scanResults("local", ScanInOrder("local", localDir.files, q, 1, <<>>))
      ELSE EmptyResults)

\* Every order of the listings gives the entries and the conflicts of merged.
SameInEveryOrder ==
  \A p \in Permutations(DOMAIN globalDir.files) :
    \A q \in Permutations(DOMAIN localDir.files) :
      /\ Range(MergedInOrder(p, q).tools) = Range(merged.tools)
      /\ MergedInOrder(p, q).summary.conflicts = merged.summary.conflicts

\* C23 as stated: whatever the files of the two sources are, every order of
\* enumeration gives the same merged entry set and the same conflict list.
C23_AsStated == Returned => SameInEveryOrder

\* C23: when the tools of each source have names that are distinct ignoring
\* case, every order of enumeration gives the same merged entry set and the
\* same conflict list.
C23_OrderIndependence ==
  Returned /\ DistinctKeys(globalResults.tools) /\ DistinctKeys(localResults.tools)
    => SameInEveryOrder

\* Two global and two local tools with two conflicts have been merged.
C23_Witness ==
  /\ Returned
  /\ DistinctKeys(globalResults.tools)
  /\ DistinctKeys(localResults.tools)
  /\ Len(globalResults.tools) = 2
  /\ Len(localResults.tools) = 2
  /\ Len(merged.summary.conflicts) = 2

---------------------------------------------------------------------------
\* Further claims about resolveGlobalToolsPath.

\* The deny-list of a POSIX system in lower case.
DenyListLower ==
  {<<47>>,
   <<47, 98, 105, 110>>,
   <<47, 117, 115, 114>>,
   <<47, 117, 115, 114, 47, 98, 105, 110>>,
   <<47, 117, 115, 114, 47, 108, 111, 99, 97, 108>>,
   <<47, 117, 115, 114, 47, 108, 111, 99, 97, 108, 47, 98, 105, 110>>,
   <<47, 101, 116, 99>>,
   <<47, 118, 97, 114>>,
   <<47, 116, 109, 112>>,
   <<47, 115, 121, 115, 116, 101, 109>>,
   <<47, 108, 105, 98, 114, 97, 114, 121>>}

\* The expected path in lower case: /TMP/tools is the only one with capitals.
ExpectedLowerPath == IF ExpectedPath = PathTmpUpper THEN PathTmpTools ELSE ExpectedPath

\* The text of the path starts with the entry followed by the separator.
StartsWithEntry(path, entry) ==
  /\ Len(path) >= Len(entry) + Len(Root)
  /\ SubSeq(path, 1, Len(entry) + Len(Root)) = entry \o Root

\* The path is refused by the deny-list.
DenyListed ==
  \E d \in DenyListLower : ExpectedLowerPath = d \/ StartsWithEntry(ExpectedLowerPath, d)

\* The path is neither the home directory nor inside it.
OutsideHome ==
  ExpectedLowerPath # processHome /\ ~NestedUnder(ExpectedLowerPath, processHome)

\* C30: the path is refused exactly when, in lower case, it equals an entry
\* of the deny-list or starts with an entry followed by the separator; a
\* path that only shares the text of an entry, as /tmpfoo, is accepted, and
\* an accepted path outside the home directory gives a warning and no error.
C30_DenyListMatching ==
  Resolved =>
    /\ pc = "threw" <=> DenyListed
    /\ ExpectedPath = PathTmpfoo => pc = "returned"
    /\ pc = "returned" /\ OutsideHome => warned

\* /tmpfoo has been accepted with a warning.
C30_Witness ==
  /\ pc = "returned"
  /\ options.cliPath = Defined(PathTmpfoo)
  /\ processHome = HomeUser
  /\ warned

---------------------------------------------------------------------------
\* Claims about the CLI action.

\* The tools have been handed to the MCP server.
Handed == pc \in {"newMCPServer", "serverStart", "serving"}

\* The tools of the valid candidates of a directory, in the order of the
\* listing.
ToolsOfScan(dir) ==
  LET entries == ExpectedResults(dir, "local").tools
  IN  [i \in DOMAIN entries |-> entries[i].tool]

\* C21: with an existing global directory the tools handed to the server are
\* those of the merge of the global and the local scan, in which a local tool
\* replaces the global tool of the same name; with no global directory they
\* are exactly the tools of the local scan, and there is no global entry and
\* no conflict.
C21_GracefulFallback ==
  Handed =>
    IF globalRoot.exists
      THEN /\ globalResults = ExpectedResults(globalDir, "global")
           /\ localResults = ExpectedResults(localDir, "local")
           /\ serverTools = [i \in DOMAIN merged.tools |-> merged.tools[i].tool]
           /\ KeysOf(merged.tools)
                = KeysOf(globalResults.tools) \cup KeysOf(localResults.tools)
           /\ \A i \in DOMAIN merged.tools :
                KeyOf(merged.tools[i]) \in KeysOf(localResults.tools)
                  => merged.tools[i].source = "local"
      ELSE /\ serverTools = ToolsOfScan(localDir)
           /\ globalResults = EmptyResults
           /\ merged = EmptyResults

\* With no global directory the server has the local tools Zeta and alpha,
\* in the order of the listing.
C21_Witness ==
  /\ pc = "serving"
  /\ ~globalRoot.exists
  /\ [i \in DOMAIN serverTools |-> serverTools[i].name] = <<Zeta, alpha>>

\* C27: on both paths the tools handed to the MCP server have distinct
\* names.
C27_UniqueNamesAtServer ==
  Handed =>
    \A i, j \in DOMAIN serverTools : serverTools[i].name = serverTools[j].name => i = j

\* The number of tools that discovery yields: the valid candidates of the
\* local folder and, with an existing global directory, of its tools
\* directory.
NoToolToDiscover ==
  /\ ToolFilesOf(localDir) = {}
  /\ globalRoot.exists => ToolFilesOf(globalDir) = {}

\* C28: the server is constructed and started with tools only; when
\* discovery yields no tool the process ends with status 1 and no server
\* has been constructed.
C28_NeverStartedEmpty ==
  /\ server # "none" => serverTools # <<>>
  /\ Handed => serverTools # <<>>
  /\ (pc \in {"exited", "newMCPServer", "serverStart", "serving"} /\ NoToolToDiscover)
       => pc = "exited" /\ process = "exited(1)" /\ server = "none"

\* Multi-source discovery has found no tool and the process has ended.
C28_Witness ==
  /\ pc = "exited"
  /\ process = "exited(1)"
  /\ server = "none"
  /\ cliGlobalPath.exists
  /\ globalDir.exists
  /\ localDir.exists

===========================================================================
